---------------------------- MODULE Spec2Model ----------------------------
(***************************************************************************)
(* A model of the ytranscript crate (src/src/fetch.rs, regex.rs, types.rs, *)
(* errors.rs): YoutubeTranscript::retrieve_video_id and the stages of      *)
(* YoutubeTranscript::fetch_transcript.                                    *)
(*                                                                         *)
(* Strings are sequences of characters (one-character strings); the atom   *)
(* "U+00E9" stands for the character e-acute, which UTF-8 encodes in two   *)
(* bytes.  Option<T> is a sequence of length 0 (None) or 1 (Some).         *)
(***************************************************************************)
EXTENDS Integers, Sequences, FiniteSets, TLC

VARIABLES
    video_id,         \* the caller's first argument (a string)
    config,           \* the caller's second argument: Option<TranscriptConfig>
    pc,               \* the position of the call in fetch_transcript
    identifier,       \* Option<String>: the result of retrieve_video_id
    headers,          \* the HeaderMap built in step 4
    requests,         \* the GET requests the call has sent, in order
    video_page_body,  \* Option<body>: the text of the watch page
    caption_tracks,   \* Option<array>: the captionTracks array of step 10
    transcript_url,   \* Option<String>: the baseUrl chosen in step 12
    transcript_body,  \* Option<document>: the text of the transcript response
    result            \* what the call returned (or that it panicked)

vars == <<video_id, config, pc, identifier, headers, requests, video_page_body,
          caption_tracks, transcript_url, transcript_body, result>>

----------------------------------------------------------------------------
(* Option, results, errors                                                 *)

None == <<>>
Some(x) == <<x>>
IsSome(o) == Len(o) = 1
IsNone(o) == Len(o) = 0
Unwrap(o) == o[1]

NoResult == [tag |-> "Running"]
Ok(v) == [tag |-> "Ok", value |-> v]
Panic(where) == [tag |-> "Panic", at |-> where]
InvalidVideoId == [tag |-> "Err", kind |-> "InvalidVideoId"]
TooManyRequests == [tag |-> "Err", kind |-> "TooManyRequests"]
VideoUnavailable(v) == [tag |-> "Err", kind |-> "VideoUnavailable", video |-> v]
TranscriptDisabled(v) == [tag |-> "Err", kind |-> "TranscriptDisabled", video |-> v]
TranscriptNotAvailable(v) == [tag |-> "Err", kind |-> "TranscriptNotAvailable", video |-> v]
TranscriptNotAvailableLanguage(l, avail, v) ==
    [tag |-> "Err", kind |-> "TranscriptNotAvailableLanguage",
     lang |-> l, available |-> avail, video |-> v]

----------------------------------------------------------------------------
(* Strings                                                                 *)

MultiByteChars == {"U+00E9"}
Utf8Width(c) == IF c \in MultiByteChars THEN 2 ELSE 1

RECURSIVE ByteLen(_)
\* str::len(): the length of the UTF-8 encoding in bytes
ByteLen(s) == IF s = <<>> THEN 0 ELSE Utf8Width(Head(s)) + ByteLen(Tail(s))

\* the number of characters of a string
CharLen(s) == Len(s)

HasAt(s, i, lit) ==
    /\ i >= 1
    /\ i + Len(lit) - 1 <= Len(s)
    /\ \A k \in 1..Len(lit) : s[i + k - 1] = lit[k]

MinOf(S) == CHOOSE x \in S : \A y \in S : x <= y
MaxOf(S) == CHOOSE x \in S : \A y \in S : y <= x

----------------------------------------------------------------------------
(* RE_YOUTUBE and retrieve_video_id                                        *)

IdByteLen == 11
IdGroupLen == 11

YOUTUBE_COM == <<"y","o","u","t","u","b","e",".","c","o","m","/">>
YOUTU_BE == <<"y","o","u","t","u",".","b","e","/">>
EMBED_SLASH == <<"e","m","b","e","d","/">>
E_SLASH == <<"e","/">>
V_SLASH == <<"v","/">>
V_EQ == <<"v","=">>

Whitespace == {" ", "\t", "\n", "\r", "\f"}

\* [^"&?\/\s]
IdClass(c) == c \notin ({"\"", "&", "?", "/"} \cup Whitespace)

\* ([^"&?\/\s]{11}) matches at position i
IdAt(s, i) ==
    /\ i >= 1
    /\ i + IdGroupLen - 1 <= Len(s)
    /\ \A k \in 0..(IdGroupLen - 1) : IdClass(s[i + k])

\* `.` matches any character but a line feed
NoNewline(s, a, b) == \A k \in a..b : s[k] # "\n"

\* [^\/]+\/.+\/ from position p, then the group: the position of the group for
\* the greedy (longest `.+`) match, 0 when there is none
ChannelAlt(s, p) ==
    LET slashes == {i \in p..Len(s) : s[i] = "/"}
    IN  IF slashes = {} \/ MinOf(slashes) = p THEN 0
        ELSE LET e == MinOf(slashes)
                 ends == {q \in (e + 2)..Len(s) :
                             /\ s[q] = "/"
                             /\ NoNewline(s, e + 1, q - 1)
                             /\ IdAt(s, q + 1)}
             IN  IF ends = {} THEN 0 ELSE MaxOf(ends) + 1

\* (?:v|e(?:mbed)?)\/ from position p, then the group
EmbedAlt(s, p) ==
    IF HasAt(s, p, V_SLASH) /\ IdAt(s, p + 2) THEN p + 2
    ELSE IF HasAt(s, p, EMBED_SLASH) /\ IdAt(s, p + 6) THEN p + 6
    ELSE IF HasAt(s, p, E_SLASH) /\ IdAt(s, p + 2) THEN p + 2
    ELSE 0

\* .*[?&]v= from position p, then the group (greedy: the last such place)
QueryAlt(s, p) ==
    LET ends == {r \in p..Len(s) :
                    /\ s[r] \in {"?", "&"}
                    /\ HasAt(s, r + 1, V_EQ)
                    /\ NoNewline(s, p, r - 1)
                    /\ IdAt(s, r + 3)}
    IN  IF ends = {} THEN 0 ELSE MaxOf(ends) + 3

\* the alternatives after youtube\.com\/ in the order the pattern lists them
PathAlt(s, p) ==
    IF ChannelAlt(s, p) # 0 THEN ChannelAlt(s, p)
    ELSE IF EmbedAlt(s, p) # 0 THEN EmbedAlt(s, p)
    ELSE QueryAlt(s, p)

\* RE_YOUTUBE matched with its first character at st: where group 1 starts, or 0
MatchAt(s, st) ==
    IF HasAt(s, st, YOUTUBE_COM) /\ PathAlt(s, st + Len(YOUTUBE_COM)) # 0
    THEN PathAlt(s, st + Len(YOUTUBE_COM))
    ELSE IF HasAt(s, st, YOUTU_BE) /\ IdAt(s, st + Len(YOUTU_BE))
    THEN st + Len(YOUTU_BE)
    ELSE 0

\* Regex::captures(video_id).get(1): the leftmost match's group 1
Captures(s) ==
    LET starts == {st \in 1..Len(s) : MatchAt(s, st) # 0}
    IN  IF starts = {} THEN None
        ELSE LET g == MatchAt(s, MinOf(starts))
             IN  Some(SubSeq(s, g, g + IdGroupLen - 1))

\* the test of fetch.rs line 181
IsRawId(s) == ByteLen(s) = IdByteLen

retrieve_video_id(s) ==
    IF IsRawId(s) THEN Ok(s)
    ELSE IF IsSome(Captures(s)) THEN Ok(Unwrap(Captures(s)))
    ELSE InvalidVideoId

----------------------------------------------------------------------------
(* serde_json::Value                                                       *)

JNull == [t |-> "null"]
JStr(s) == [t |-> "str", s |-> s]
JArr(a) == [t |-> "arr", a |-> a]
JObj(o) == [t |-> "obj", o |-> o]

\* Value::get(key): Some only on an object that has the key
Get(v, key) == IF v.t = "obj" /\ key \in DOMAIN v.o THEN Some(v.o[key]) ELSE None
\* Value::as_str()
AsStr(v) == IF v.t = "str" THEN Some(v.s) ELSE None
\* Value::as_array()
AsArray(v) == IF v.t = "arr" THEN Some(v.a) ELSE None
\* value[key]: Null when the key is missing
Index(v, key) == IF IsSome(Get(v, key)) THEN Unwrap(Get(v, key)) ELSE JNull

\* track.get("languageCode").and_then(|v| v.as_str())
LanguageCodeOf(track) ==
    IF IsSome(Get(track, "languageCode"))
    THEN AsStr(Unwrap(Get(track, "languageCode")))
    ELSE None

----------------------------------------------------------------------------
(* The watch page: a body is a sequence of pieces of text, the markers the *)
(* code looks for being pieces of their own.                               *)

CAPTIONS == [k |-> "\"captions\":"]
RECAPTCHA == [k |-> "class=\"g-recaptcha\""]
PLAYABILITY == [k |-> "\"playabilityStatus\":"]
VIDEO_DETAILS == [k |-> ",\"videoDetails"]
NEWLINE == [k |-> "\n"]
HTML == [k |-> "html"]
JsonText(v) == [k |-> "json", json |-> v]

\* str::contains(marker)
Contains(body, marker) == \E i \in 1..Len(body) : body[i] = marker

\* str::split(marker): the pieces between the occurrences of the marker
RECURSIVE Split(_, _)
Split(body, marker) ==
    IF ~Contains(body, marker) THEN <<body>>
    ELSE LET i == MinOf({j \in 1..Len(body) : body[j] = marker})
         IN  <<SubSeq(body, 1, i - 1)>> \o Split(SubSeq(body, i + 1, Len(body)), marker)

\* str::replace("\n", "")
StripNewlines(text) == SelectSeq(text, LAMBDA piece : piece # NEWLINE)

\* serde_json::from_str(text).ok(): the text must be one JSON value
FromStr(text) ==
    IF Len(text) = 1 /\ text[1].k = "json" THEN Some(text[1].json) ELSE None

\* steps 6 and 7 with the playability test placed before the CAPTCHA test
NoCaptionsError_PlayabilityFirst(body, vid) ==
    IF Len(Split(body, CAPTIONS)) <= 1
    THEN IF ~Contains(body, PLAYABILITY) THEN Some(VideoUnavailable(vid))
         ELSE IF Contains(body, RECAPTCHA) THEN Some(TooManyRequests)
         ELSE Some(TranscriptDisabled(vid))
    ELSE None

\* steps 6 and 7: Some(error) when the body has no captions marker
NoCaptionsError(body, vid) ==
    IF Len(Split(body, CAPTIONS)) <= 1
    THEN IF Contains(body, RECAPTCHA) THEN Some(TooManyRequests)
         ELSE IF ~Contains(body, PLAYABILITY) THEN Some(VideoUnavailable(vid))
         ELSE Some(TranscriptDisabled(vid))
    ELSE None

\* step 8: the captions JSON
CaptionsOf(body) ==
    FromStr(StripNewlines(Split(Split(body, CAPTIONS)[2], VIDEO_DETAILS)[1]))

\* step 9: captions.and_then(|c| c.get("playerCaptionsTracklistRenderer"))
RendererOf(captions) ==
    IF IsSome(captions) THEN Get(Unwrap(captions), "playerCaptionsTracklistRenderer")
    ELSE None

\* steps 6 to 10: Ok(the captionTracks array) or the error
ExtractTracks(body, vid) ==
    IF IsSome(NoCaptionsError(body, vid)) THEN Unwrap(NoCaptionsError(body, vid))
    ELSE LET renderer == RendererOf(CaptionsOf(body))
         IN  IF IsNone(renderer) THEN TranscriptDisabled(vid)
             ELSE LET tracks == Get(Unwrap(renderer), "captionTracks")
                  IN  IF IsNone(tracks) THEN TranscriptNotAvailable(vid)
                      ELSE IF IsNone(AsArray(Unwrap(tracks)))
                      THEN TranscriptNotAvailable(vid)
                      ELSE Ok(Unwrap(AsArray(Unwrap(tracks))))

----------------------------------------------------------------------------
(* Track selection                                                         *)

\* config.as_ref().and_then(|c| c.lang.clone())
RequestedLang(cfg) == IF IsSome(cfg) THEN Unwrap(cfg).lang ELSE None

\* step 11 with find_map in the place of filter_map: the first code only
AvailableLangs_FirstOnly(tracks) ==
    LET coded == {i \in 1..Len(tracks) : IsSome(LanguageCodeOf(tracks[i]))}
    IN  IF coded = {} THEN <<>> ELSE LanguageCodeOf(tracks[MinOf(coded)])

\* step 11: the codes of the tracks that have a string languageCode (filter_map)
RECURSIVE AvailableLangs(_)
AvailableLangs(tracks) ==
    IF tracks = <<>> THEN <<>>
    ELSE LanguageCodeOf(Head(tracks)) \o AvailableLangs(Tail(tracks))

\* step 11: the requested language is the code of no track
LangMissing(cfg, tracks) ==
    /\ IsSome(RequestedLang(cfg))
    /\ ~\E i \in 1..Len(tracks) : LanguageCodeOf(tracks[i]) = RequestedLang(cfg)

\* step 12: the closure of find unwraps c.lang on the first track it is given
FindPanics(cfg, tracks) ==
    IsSome(cfg) /\ IsNone(Unwrap(cfg).lang) /\ tracks # <<>>

\* step 12: the predicate of find when it does not panic
TrackMatches(cfg, track) ==
    IF IsNone(cfg) THEN TRUE
    ELSE /\ IsSome(Get(track, "languageCode"))
         /\ Unwrap(Get(track, "languageCode")) = JStr(Unwrap(Unwrap(cfg).lang))

\* step 12: Iterator::find, the first track the predicate accepts
FindTrack(cfg, tracks) ==
    LET hits == {i \in 1..Len(tracks) : TrackMatches(cfg, tracks[i])}
    IN  IF hits = {} THEN None ELSE Some(tracks[MinOf(hits)])

\* step 12: .and_then(|track| track.get("baseUrl")).and_then(|url| url.as_str())
BaseUrlOf(found) ==
    IF IsSome(found) /\ IsSome(Get(Unwrap(found), "baseUrl"))
    THEN AsStr(Unwrap(Get(Unwrap(found), "baseUrl")))
    ELSE None

\* steps 11 and 12: Ok(the transcript URL), the error or the panic
SelectTranscriptUrl(cfg, tracks, vid) ==
    IF LangMissing(cfg, tracks)
    THEN TranscriptNotAvailableLanguage(Unwrap(RequestedLang(cfg)),
                                        AvailableLangs(tracks), vid)
    ELSE IF FindPanics(cfg, tracks) THEN Panic("step 12: c.lang.clone().unwrap()")
    ELSE IF IsNone(BaseUrlOf(FindTrack(cfg, tracks))) THEN TranscriptNotAvailable(vid)
    ELSE Ok(Unwrap(BaseUrlOf(FindTrack(cfg, tracks))))

----------------------------------------------------------------------------
(* The transcript document: a sequence of elements; RE_XML_TRANSCRIPT      *)
(* matches the elements of the form <text start="S" dur="D">TEXT</text>.   *)

TextElement(s, d, t) == [k |-> "text", start |-> s, dur |-> d, text |-> t]
OtherElement == [k |-> "other"]

\* Regex::captures_iter: the matching elements in document order
Matches(doc) == SelectSeq(doc, LAMBDA el : el.k = "text")

Digits == {"0", "1", "2", "3", "4", "5", "6", "7", "8", "9"}
IsDigit(c) == c \in Digits
DigitVal(c) ==
    CASE c = "0" -> 0 [] c = "1" -> 1 [] c = "2" -> 2 [] c = "3" -> 3 [] c = "4" -> 4
      [] c = "5" -> 5 [] c = "6" -> 6 [] c = "7" -> 7 [] c = "8" -> 8 [] c = "9" -> 9

RECURSIVE DecimalVal(_)
DecimalVal(ds) ==
    IF ds = <<>> THEN 0
    ELSE 10 * DecimalVal(SubSeq(ds, 1, Len(ds) - 1)) + DigitVal(ds[Len(ds)])

\* a number m / 10^e
Float(m, e) == [m |-> m, e |-> e]
Zero == Float(0, 0)

\* str::parse::<f64>() on decimal literals: an optional sign, digits with at most
\* one point and at least one digit (exponents, inf and nan are not in the
\* alphabet of the documents drawn here)
ParseF64(s) ==
    LET signed == s # <<>> /\ s[1] \in {"+", "-"}
        body == IF signed THEN Tail(s) ELSE s
        points == {i \in 1..Len(body) : body[i] = "."}
        ds == SelectSeq(body, IsDigit)
    IN  IF \/ Cardinality(points) > 1
           \/ ds = <<>>
           \/ \E i \in 1..Len(body) : body[i] \notin (Digits \cup {"."})
        THEN None
        ELSE Some(Float((IF signed /\ s[1] = "-" THEN -1 ELSE 1) * DecimalVal(ds),
                        IF points = {} THEN 0 ELSE Len(body) - MinOf(points)))

\* cap[i].parse().unwrap_or(0.0)
ParseOrZero(s) == IF IsSome(ParseF64(s)) THEN Unwrap(ParseF64(s)) ELSE Zero

\* step 14: the closure of unwrap_or_else panics when the first track has no
\* string languageCode; it runs once for every match when no language is set
EntryLangPanics(cfg, tracks, doc) ==
    /\ IsNone(RequestedLang(cfg))
    /\ Matches(doc) # <<>>
    /\ IsNone(AsStr(Index(tracks[1], "languageCode")))

\* step 14: the lang of every entry
EntryLang(cfg, tracks) ==
    IF IsSome(RequestedLang(cfg)) THEN Unwrap(RequestedLang(cfg))
    ELSE Unwrap(AsStr(Index(tracks[1], "languageCode")))

\* step 14: one TranscriptResponse for each match
ParseTranscript(cfg, tracks, doc) ==
    IF EntryLangPanics(cfg, tracks, doc)
    THEN Panic("step 14: caption_tracks[0][\"languageCode\"].as_str().unwrap()")
    ELSE Ok([i \in 1..Len(Matches(doc)) |->
               [text |-> Matches(doc)[i].text,
                duration |-> ParseOrZero(Matches(doc)[i].dur),
                offset |-> ParseOrZero(Matches(doc)[i].start),
                lang |-> EntryLang(cfg, tracks)]])

----------------------------------------------------------------------------
(* Headers and requests                                                    *)

USER_AGENT_STR ==
    "Mozilla/5.0 (Macintosh; Intel Mac OS X 10_15_4) AppleWebKit/537.36 (KHTML, like Gecko) Chrome/85.0.4183.83 Safari/537.36,gzip(gfe)"

EmptyHeaders == [user_agent |-> None, accept_language |-> None]

\* HeaderValue::from_str(lang) is an Err on a control character (a byte below 32
\* other than tab, or 127); unwrap() then panics
HeaderValueValid(s) == \A i \in 1..Len(s) : s[i] \notin {"\n", "\r", "\f"}

WATCH_URL == <<"h","t","t","p","s",":","/","/","w","w","w",".">> \o YOUTUBE_COM
                 \o <<"w","a","t","c","h","?","v","=">>

\* step 3: format!("https://www.youtube.com/watch?v={}", identifier)
VideoPageUrl(id) == WATCH_URL \o id

Get_(stage, url, hs) == [stage |-> stage, url |-> url, headers |-> hs]

----------------------------------------------------------------------------
(* The inputs drawn: arguments of the call and responses of the network    *)

MaxIdDelta == 1
MaxTracks == 2
MaxEntries == 1

ID_CHARS == <<"d","Q","w","4","w","9","W","g","X","c","Q","A","B","C","D">>
\* an ID segment of n characters
Seg(n) == [i \in 1..n |-> ID_CHARS[((i - 1) % Len(ID_CHARS)) + 1]]
\* the same with a two-byte first character
SegWide(n) == [i \in 1..n |-> IF i = 1 THEN "U+00E9" ELSE Seg(n)[i]]
SegLens == (IdGroupLen - MaxIdDelta)..(IdGroupLen + MaxIdDelta)
Segs == {Seg(n) : n \in SegLens} \cup {SegWide(n) : n \in SegLens}

HTTPS == <<"h","t","t","p","s",":","/","/">>
WWW == <<"w","w","w",".">>
EXAMPLE_COM == <<"e","x","a","m","p","l","e",".","c","o","m","/">>
WATCH_V == <<"w","a","t","c","h","?","v","=">>
CHANNEL_PATH == <<"c","/","x","/">>

\* the supported shapes: everything before the ID segment
YoutubeShapes ==
    {h \o YOUTUBE_COM \o p :
        h \in {<<>>, HTTPS \o WWW},
        p \in {WATCH_V, EMBED_SLASH, V_SLASH, CHANNEL_PATH}}
    \cup {h \o YOUTU_BE : h \in {<<>>, HTTPS}}

\* what may follow the ID segment
Suffixes == {<<>>, <<"&","t","=","1">>, <<"?","t","=","1">>, <<"/">>}

\* URLs of another host
OtherHostUrls ==
    {HTTPS \o WWW \o EXAMPLE_COM \o p \o Seg(IdGroupLen) :
        p \in {WATCH_V, EMBED_SLASH, <<"?","u","=">> \o YOUTUBE_COM \o V_SLASH,
               <<"?","u","=">> \o YOUTU_BE}}
    \cup {<<"h","t","t","p",":","/","/","a",".","c","o">>,
          <<"h","t","t","p",":","/","/","a",".","c","o","m">>}

ResolverInputs ==
    Segs
    \cup {sh \o sg \o sf : sh \in YoutubeShapes, sg \in Segs, sf \in Suffixes}
    \cup OtherHostUrls
    \cup {<<>>, <<"a","b","c">>}

\* the inputs of the whole call: a raw ID, a URL, and a string that is neither
FetchInputs ==
    {Seg(IdGroupLen), HTTPS \o WWW \o YOUTUBE_COM \o WATCH_V \o Seg(IdGroupLen),
     <<"a","b","c">>}

EN == <<"e","n">>
EN_UPPER == <<"E","N">>
BAD_LANG == <<"e","n","\n">>

Configs ==
    {None, Some([lang |-> None]), Some([lang |-> Some(EN)]),
     Some([lang |-> Some(BAD_LANG)])}

\* a caption track: an object with or without languageCode and baseUrl; the
\* i-th track's URL is its own
UrlOf(i) == <<"u","r","l">> \o <<(<<"1","2","3","4","5">>)[i]>>
TrackShapes == [lang : {None, Some(EN), Some(EN_UPPER)}, url : BOOLEAN]
MkTrack(i, sh) ==
    IF IsSome(sh.lang) /\ sh.url
    THEN JObj([languageCode |-> JStr(Unwrap(sh.lang)), baseUrl |-> JStr(UrlOf(i))])
    ELSE IF IsSome(sh.lang) THEN JObj([languageCode |-> JStr(Unwrap(sh.lang))])
    ELSE IF sh.url THEN JObj([baseUrl |-> JStr(UrlOf(i))])
    ELSE JObj([kind |-> JStr(<<"a","s","r">>)])
TrackLists ==
    UNION {{[i \in 1..n |-> MkTrack(i, f[i])] : f \in [1..n -> TrackShapes]} :
              n \in 0..MaxTracks}

Renderers ==
    {JObj([captionTracks |-> JArr(ts)]) : ts \in TrackLists}
    \cup {JObj([captionTracks |-> JStr(<<"x">>)]), JObj([audioTracks |-> JArr(<<>>)]), JNull}

CaptionValues ==
    {JObj([playerCaptionsTracklistRenderer |-> r]) : r \in Renderers}
    \cup {JObj([other |-> JNull]), JArr(<<>>)}

OneTrack == JObj([playerCaptionsTracklistRenderer |->
                    JObj([captionTracks |-> JArr(<<MkTrack(1, [lang |-> Some(EN), url |-> TRUE])>>)])])

PageBodies ==
    {<<HTML>> \o a \o b : a \in {<<>>, <<RECAPTCHA>>}, b \in {<<>>, <<PLAYABILITY>>}}
    \cup {<<HTML, PLAYABILITY, CAPTIONS, JsonText(v), VIDEO_DETAILS, HTML>> :
             v \in CaptionValues}
    \cup {<<HTML, RECAPTCHA, CAPTIONS, JsonText(OneTrack), NEWLINE, VIDEO_DETAILS>>,
          <<CAPTIONS, JsonText(OneTrack), HTML>>,
          <<CAPTIONS, HTML, VIDEO_DETAILS>>,
          <<CAPTIONS, JsonText(JObj([other |-> JNull])), CAPTIONS, JsonText(OneTrack),
            VIDEO_DETAILS>>}

AttrValues == {<<"1",".","5">>, <<"-","1">>, <<"x">>}
Elements ==
    {TextElement(s, d, "Hi") : s \in AttrValues, d \in AttrValues} \cup {OtherElement}
Documents == UNION {[1..n -> Elements] : n \in 0..MaxEntries}

----------------------------------------------------------------------------
(* fetch_transcript                                                        *)

Init ==
    /\ video_id \in FetchInputs
    /\ config \in Configs
    /\ pc = "resolve"
    /\ identifier = None
    /\ headers = EmptyHeaders
    /\ requests = <<>>
    /\ video_page_body = None
    /\ caption_tracks = None
    /\ transcript_url = None
    /\ transcript_body = None
    /\ result = NoResult

\* a failure that is recorded without leaving the stage, which then runs again
Return_Retry(r) == pc' = pc /\ result' = r

\* return: the call ends with r
Return(r) == pc' = "done" /\ result' = r

\* step 1: retrieve_video_id(video_id)?
Resolve ==
    /\ pc = "resolve"
    /\ IF retrieve_video_id(video_id).tag = "Ok"
       THEN /\ identifier' = Some(retrieve_video_id(video_id).value)
            /\ pc' = "headers"
            /\ UNCHANGED result
       ELSE /\ Return(retrieve_video_id(video_id))
            /\ UNCHANGED identifier
    /\ UNCHANGED <<video_id, config, headers, requests, video_page_body,
                   caption_tracks, transcript_url, transcript_body>>

\* steps 2 to 4: the client, the page URL and the headers
PrepareHeaders ==
    /\ pc = "headers"
    /\ IF IsSome(RequestedLang(config)) /\ ~HeaderValueValid(Unwrap(RequestedLang(config)))
       THEN /\ Return(Panic("step 4: HeaderValue::from_str(&lang).unwrap()"))
            /\ UNCHANGED headers
       ELSE /\ headers' = [user_agent |-> Some(USER_AGENT_STR),
                           accept_language |-> RequestedLang(config)]
            /\ pc' = "page_send"
            /\ UNCHANGED result
    /\ UNCHANGED <<video_id, config, identifier, requests, video_page_body,
                   caption_tracks, transcript_url, transcript_body>>

\* step 5: client.get(&video_page_url).headers(..).send().await
SendPage ==
    /\ pc = "page_send"
    /\ requests' = Append(requests, Get_("page", VideoPageUrl(Unwrap(identifier)), headers))
    /\ \E sent \in BOOLEAN :
          IF sent THEN pc' = "page_text" /\ UNCHANGED result
          ELSE Return(TranscriptDisabled(video_id))
    /\ UNCHANGED <<video_id, config, identifier, headers, video_page_body,
                   caption_tracks, transcript_url, transcript_body>>

\* step 5: video_page_response.text().await
ReadPage ==
    /\ pc = "page_text"
    /\ \E body \in {None} \cup {Some(b) : b \in PageBodies} :
          IF IsSome(body)
          THEN video_page_body' = body /\ pc' = "extract" /\ UNCHANGED result
          ELSE Return(TranscriptDisabled(video_id)) /\ UNCHANGED video_page_body
    /\ UNCHANGED <<video_id, config, identifier, headers, requests,
                   caption_tracks, transcript_url, transcript_body>>

\* steps 6 to 10
ExtractCaptions ==
    /\ pc = "extract"
    /\ IF ExtractTracks(Unwrap(video_page_body), video_id).tag = "Ok"
       THEN /\ caption_tracks' = Some(ExtractTracks(Unwrap(video_page_body), video_id).value)
            /\ pc' = "select"
            /\ UNCHANGED result
       ELSE /\ Return(ExtractTracks(Unwrap(video_page_body), video_id))
            /\ UNCHANGED caption_tracks
    /\ UNCHANGED <<video_id, config, identifier, headers, requests, video_page_body,
                   transcript_url, transcript_body>>

\* steps 11 and 12
SelectTrack ==
    /\ pc = "select"
    /\ IF SelectTranscriptUrl(config, Unwrap(caption_tracks), video_id).tag = "Ok"
       THEN /\ transcript_url' =
                  Some(SelectTranscriptUrl(config, Unwrap(caption_tracks), video_id).value)
            /\ pc' = "transcript_send"
            /\ UNCHANGED result
       ELSE /\ Return(SelectTranscriptUrl(config, Unwrap(caption_tracks), video_id))
            /\ UNCHANGED transcript_url
    /\ UNCHANGED <<video_id, config, identifier, headers, requests, video_page_body,
                   caption_tracks, transcript_body>>

\* step 13: client.get(transcript_url).headers(headers).send().await and the
\* status check
SendTranscript ==
    /\ pc = "transcript_send"
    /\ requests' = Append(requests, Get_("transcript", Unwrap(transcript_url), headers))
    /\ \E outcome \in {"error", "not success", "success"} :
          IF outcome = "success" THEN pc' = "transcript_text" /\ UNCHANGED result
          ELSE Return(TranscriptNotAvailable(video_id))
    /\ UNCHANGED <<video_id, config, identifier, headers, video_page_body,
                   caption_tracks, transcript_url, transcript_body>>

\* step 13: transcript_response.text().await
ReadTranscript ==
    /\ pc = "transcript_text"
    /\ \E body \in {None} \cup {Some(d) : d \in Documents} :
          IF IsSome(body)
          THEN transcript_body' = body /\ pc' = "parse" /\ UNCHANGED result
          ELSE Return(TranscriptNotAvailable(video_id)) /\ UNCHANGED transcript_body
    /\ UNCHANGED <<video_id, config, identifier, headers, requests, video_page_body,
                   caption_tracks, transcript_url>>

\* step 14
Parse ==
    /\ pc = "parse"
    /\ Return(ParseTranscript(config, Unwrap(caption_tracks), Unwrap(transcript_body)))
    /\ UNCHANGED <<video_id, config, identifier, headers, requests, video_page_body,
                   caption_tracks, transcript_url, transcript_body>>

Next ==
    \/ Resolve
    \/ PrepareHeaders
    \/ SendPage
    \/ ReadPage
    \/ ExtractCaptions
    \/ SelectTrack
    \/ SendTranscript
    \/ ReadTranscript
    \/ Parse

Spec == Init /\ [][Next]_vars

\* retrieve_video_id alone, on every input drawn for it
InitResolve ==
    /\ video_id \in ResolverInputs
    /\ config = None
    /\ pc = "resolve"
    /\ identifier = None
    /\ headers = EmptyHeaders
    /\ requests = <<>>
    /\ video_page_body = None
    /\ caption_tracks = None
    /\ transcript_url = None
    /\ transcript_body = None
    /\ result = NoResult

NextResolve == Resolve

SpecResolve == InitResolve /\ [][NextResolve]_vars

----------------------------------------------------------------------------
(* Properties                                                              *)

ErrorKind(r, kind) == r.tag = "Err" /\ r.kind = kind
Sent(stage) == {i \in 1..Len(requests) : requests[i].stage = stage}
Tracks == Unwrap(caption_tracks)
Body == Unwrap(video_page_body)

\* C1: a watch-page body without the "captions": marker ends the call with
\* TooManyRequests when it holds class="g-recaptcha" (with or without
\* "playabilityStatus":), else with VideoUnavailable when it lacks
\* "playabilityStatus":, else with TranscriptDisabled; no transcript is fetched.
C1_NoCaptionsOutcome ==
    (IsSome(video_page_body) /\ (\A i \in 1..Len(Body) : Body[i] # CAPTIONS)) =>
        /\ Sent("transcript") = {}
        /\ pc \in {"extract", "done"}
        /\ pc = "done" =>
              IF \E i \in 1..Len(Body) : Body[i] = RECAPTCHA
              THEN ErrorKind(result, "TooManyRequests")
              ELSE IF \A i \in 1..Len(Body) : Body[i] # PLAYABILITY
              THEN ErrorKind(result, "VideoUnavailable")
              ELSE ErrorKind(result, "TranscriptDisabled")

\* C1 witness: a body with the CAPTCHA marker and the playability marker and no
\* captions marker has ended the call with TooManyRequests
C1_Witness ==
    /\ pc = "done"
    /\ IsSome(video_page_body)
    /\ ~Contains(Body, CAPTIONS)
    /\ Contains(Body, RECAPTCHA)
    /\ Contains(Body, PLAYABILITY)
    /\ result = TooManyRequests

\* the case of C2: a language is requested, the track list is not empty and
\* selection has run without finding the language among the tracks' codes
C2_Case ==
    /\ pc = "done"
    /\ IsSome(caption_tracks)
    /\ Tracks # <<>>
    /\ IsSome(RequestedLang(config))
    /\ \A i \in 1..Len(Tracks) : LanguageCodeOf(Tracks[i]) # RequestedLang(config)

\* the codes of the tracks that have a string languageCode, in track order
C2_StringCodes ==
    LET coded == SelectSeq(Tracks, LAMBDA t : IsSome(LanguageCodeOf(t)))
    IN  [j \in 1..Len(coded) |-> Unwrap(LanguageCodeOf(coded[j]))]

C3_FirstTrackSelected ==
    (/\ IsSome(caption_tracks)
     /\ pc # "select"
     /\ Tracks # <<>>
     /\ IsNone(RequestedLang(config))
     /\ IsSome(BaseUrlOf(Some(Tracks[1])))) =>
        /\ transcript_url = BaseUrlOf(Some(Tracks[1]))
        /\ pc # "transcript_send" =>
              \E i \in Sent("transcript") : Some(requests[i].url) = BaseUrlOf(Some(Tracks[1]))

\* what retrieve_video_id returned once Resolve has run
Resolved == pc # "resolve"
ReturnedId(id) == identifier = Some(id)
ReturnedInvalid == result = InvalidVideoId

\* C4: for an input of a supported URL shape, retrieve_video_id returns the ID
\* segment when it has exactly 11 characters and fails with InvalidVideoId when
\* it is shorter or longer.
C4_ExactIdSegment ==
    Resolved =>
        \A sh \in YoutubeShapes, sg \in Segs, sf \in Suffixes :
            video_id = sh \o sg \o sf =>
                IF CharLen(sg) = IdGroupLen THEN ReturnedId(sg) ELSE ReturnedInvalid

\* the host of a URL: what stands between "://" and the next "/", "?" or "#"
HasScheme(s) == \E i \in 1..Len(s) : HasAt(s, i, <<":","/","/">>)
HostOf(s) ==
    LET a == MinOf({i \in 1..Len(s) : HasAt(s, i, <<":","/","/">>)}) + 3
        stops == {i \in a..Len(s) : s[i] \in {"/", "?", "#"}}
    IN  SubSeq(s, a, IF stops = {} THEN Len(s) ELSE MinOf(stops) - 1)
YoutubeHosts ==
    {<<"y","o","u","t","u","b","e",".","c","o","m">>,
     WWW \o <<"y","o","u","t","u","b","e",".","c","o","m">>,
     <<"y","o","u","t","u",".","b","e">>}

\* C5: for a URL whose host is not youtube.com or youtu.be, retrieve_video_id
\* fails with InvalidVideoId, whatever the URL's length, path or query string.
C5_OtherHostInvalid ==
    (Resolved /\ HasScheme(video_id) /\ HostOf(video_id) \notin YoutubeHosts) =>
        ReturnedInvalid

\* C6: an input of exactly 11 characters is returned unchanged, and no input of
\* another number of characters passes the length test of the shortcut.
C6_RawIdShortcut ==
    Resolved =>
        /\ CharLen(video_id) = IdByteLen => ReturnedId(video_id)
        /\ IsRawId(video_id) => CharLen(video_id) = IdByteLen

\* C7: the call ends with Ok or with one of the six error kinds, never with a
\* panic.
C7_NoPanic ==
    pc = "done" =>
        \/ result.tag = "Ok"
        \/ /\ result.tag = "Err"
           /\ result.kind \in {"InvalidVideoId", "TooManyRequests", "VideoUnavailable",
                               "TranscriptDisabled", "TranscriptNotAvailable",
                               "TranscriptNotAvailableLanguage"}

\* the place of each position in the order resolve, page fetch, metadata
\* extraction, track selection, transcript fetch, parse
Rank(p) ==
    CASE p = "resolve" -> 1 [] p = "headers" -> 2 [] p = "page_send" -> 3
      [] p = "page_text" -> 4 [] p = "extract" -> 5 [] p = "select" -> 6
      [] p = "transcript_send" -> 7 [] p = "transcript_text" -> 8 [] p = "parse" -> 9
      [] p = "done" -> 10

C8_Inv ==
    /\ Cardinality(Sent("page")) <= 1
    /\ Cardinality(Sent("transcript")) <= 1
    /\ \A i \in Sent("transcript") :
          /\ Sent("page") = {1} /\ i = 2
          /\ IsSome(video_page_body)
          /\ IsSome(caption_tracks)
          /\ \E t \in 1..Len(Tracks) : BaseUrlOf(Some(Tracks[t])) = Some(requests[i].url)
    /\ Sent("page") # {} => Rank(pc) > Rank("page_send")
    /\ Sent("page") = {} => Rank(pc) <= Rank("page_send") \/ pc = "done"
    /\ (result # NoResult) <=> (pc = "done")

C8_Step ==
    /\ pc # "done"
    /\ result = NoResult
    /\ pc' = "done" \/ Rank(pc') = Rank(pc) + 1
    /\ Len(requests') <= Len(requests) + 1
    /\ SubSeq(requests', 1, Len(requests)) = requests

\* C8: the stages run in the order resolve, page fetch, metadata extraction,
\* track selection, transcript fetch, parse; the call sends at most one watch-page
\* GET and at most one transcript GET, the transcript GET only after the page was
\* read and a track with that baseUrl was found; once a stage has failed the call
\* has ended: no further stage runs, no request is sent and the result stays.
C8_LinearChain == [](C8_Inv) /\ [][C8_Step]_vars

\* C8 witness: the transcript fetch failed after both requests were sent
C8_Witness ==
    /\ pc = "done"
    /\ ErrorKind(result, "TranscriptNotAvailable")
    /\ Len(requests) = 2
    /\ requests[1].stage = "page"
    /\ requests[2].stage = "transcript"

\* C9: every entry returned has offset >= 0 and duration >= 0.
C9_NonNegative ==
    result.tag = "Ok" =>
        \A i \in 1..Len(result.value) :
            result.value[i].offset.m >= 0 /\ result.value[i].duration.m >= 0

\* C10: an error that carries a video id carries the identifier the resolver
\* produced.
C10_ErrorsCarryIdentifier ==
    (result.tag = "Err" /\ result.kind \in {"VideoUnavailable", "TranscriptDisabled",
                                           "TranscriptNotAvailable",
                                           "TranscriptNotAvailableLanguage"}) =>
        identifier = Some(result.video)

============================================================================
